---- MODULE Spec2Model ----
(***************************************************************************)
(* Actor / Critic networks and the Actor_Critics ensemble of model.py.     *)
(*                                                                         *)
(* Tensors hold fixed-point numbers: the integer v stands for v / Scale.   *)
(* The finite range is -MaxFinite..MaxFinite; a result beyond it becomes   *)
(* an infinity, and NaN propagates, as in IEEE arithmetic.                 *)
(* The global random generator of the framework is one integer state.      *)
(***************************************************************************)
EXTENDS Integers, Sequences, FiniteSets, TLC

\* ---------------------------------------------------------------- bounds
MaxAgents == 2
MaxStateSize == 2
MaxActionSize == 2
MaxHidden == 2
MaxSeed == 1
MaxBatch == 2
MaxSteps == 1
RngMod == 16
MaxFinite == 40000

\* One unit of the fixed-point representation is 1/Scale.
Scale == 100 * 100

\* ------------------------------------------------------ float arithmetic
PInf == MaxFinite + 1
NInf == 0 - (MaxFinite + 1)
NaN == MaxFinite + 2

IsFinite(a) == a >= 0 - MaxFinite /\ a <= MaxFinite
IsNaN(a) == a = NaN

Abs(a) == IF a < 0 THEN 0 - a ELSE a
Sign(a) == IF a < 0 THEN 0 - 1 ELSE IF a > 0 THEN 1 ELSE 0

\* Integer quotient rounded toward zero.
TruncDiv(a, b) == Sign(a) * Sign(b) * (Abs(a) \div Abs(b))

\* An exact result brought back into the representation (overflow to +-inf).
Round(a) == IF a > MaxFinite THEN PInf ELSE IF a < 0 - MaxFinite THEN NInf ELSE a

FNeg(a) == IF IsNaN(a) THEN NaN ELSE 0 - a

FAdd(a, b) ==
    IF IsNaN(a) \/ IsNaN(b) THEN NaN
    ELSE IF a = PInf THEN (IF b = NInf THEN NaN ELSE PInf)
    ELSE IF a = NInf THEN (IF b = PInf THEN NaN ELSE NInf)
    ELSE IF b = PInf \/ b = NInf THEN b
    ELSE Round(a + b)

FSub(a, b) == FAdd(a, FNeg(b))

FMul(a, b) ==
    IF IsNaN(a) \/ IsNaN(b) THEN NaN
    ELSE IF IsFinite(a) /\ IsFinite(b) THEN Round(TruncDiv(a * b, Scale))
    ELSE IF a = 0 \/ b = 0 THEN NaN
    ELSE IF Sign(a) * Sign(b) > 0 THEN PInf ELSE NInf

FDiv(a, b) ==
    IF IsNaN(a) \/ IsNaN(b) THEN NaN
    ELSE IF ~IsFinite(a) THEN
        (IF ~IsFinite(b) THEN NaN
         ELSE IF Sign(a) * (IF b < 0 THEN 0 - 1 ELSE 1) > 0 THEN PInf ELSE NInf)
    ELSE IF ~IsFinite(b) THEN 0
    ELSE IF b = 0 THEN (IF a = 0 THEN NaN ELSE IF a > 0 THEN PInf ELSE NInf)
    ELSE Round(TruncDiv(a * Scale, b))

\* Largest r with r * r <= n, by bisection on lo..hi (lo * lo <= n < (hi+1)^2).
RECURSIVE ISqrtIn(_, _, _)
ISqrtIn(n, lo, hi) ==
    IF lo >= hi THEN lo
    ELSE LET mid == (lo + hi + 1) \div 2
         IN  IF mid * mid <= n THEN ISqrtIn(n, mid, hi) ELSE ISqrtIn(n, lo, mid - 1)

ISqrt(n) == ISqrtIn(n, 0, 46340)

\* np.sqrt then 1. / : the fixed-point value of 1 / sqrt(d), for an integer d >= 1.
InvSqrt(d) == ISqrt((Scale * Scale) \div d)

\* F.relu : negative values clamp to zero, NaN stays NaN.
Relu(a) == IF IsNaN(a) THEN NaN ELSE IF a < 0 THEN 0 ELSE a

\* tanh on the grid 0, 0.5, ..., 5.0, in units of 1/10000.
TanhTable == <<0, 4621, 7616, 9051, 9640, 9866, 9951, 9982, 9993, 9998, 9999>>

\* tanh of a finite a >= 0: linear interpolation in the table, saturating at 1.
TanhPos(a) ==
    LET half == Scale \div 2
        k == a \div half
        r == a % half
    IN  IF k + 2 > Len(TanhTable) THEN Scale
        ELSE LET t0 == (TanhTable[k + 1] * Scale) \div 10000
                 t1 == (TanhTable[k + 2] * Scale) \div 10000
             IN  t0 + ((t1 - t0) * r) \div half

\* F.tanh
Tanh(a) ==
    IF IsNaN(a) THEN NaN
    ELSE IF a = PInf THEN Scale
    ELSE IF a = NInf THEN 0 - Scale
    ELSE IF a < 0 THEN 0 - TanhPos(0 - a) ELSE TanhPos(a)

\* The element of a one-element set.  Bind({ e(x) : x \in {v} }) is e(v) with
\* v computed once: the statements of a constructor run in sequence, each on
\* the values the earlier ones left (read such a definition bottom-up).
Bind(S) == CHOOSE x \in S : TRUE

\* ---------------------------------------------------------------- tensors
\* A vector is a sequence of numbers, a matrix a sequence of rows.
\* A tensor handed to forward is [dim |-> 1, data |-> vector] or
\* [dim |-> 2, data |-> matrix].
Fill(n, v) == [i \in 1..n |-> v]
FillMatrix(rows, cols, v) == [i \in 1..rows |-> [j \in 1..cols |-> v]]

RECURSIVE FSum(_)
FSum(vec) == IF Len(vec) = 0 THEN 0 ELSE FAdd(FSum(SubSeq(vec, 1, Len(vec) - 1)), vec[Len(vec)])

VecFinite(vec) == \A i \in 1..Len(vec) : IsFinite(vec[i])
MatFinite(m) == \A i \in 1..Len(m) : VecFinite(m[i])

\* ------------------------------------------------- the global generator
\* The constructor without its torch.manual_seed call.
manual_seed_skipped(seed, s) == s

\* torch.manual_seed(seed) with the generator in state s: the new state is a
\* function of the seed alone.
manual_seed(seed, s) == seed % RngMod

NextRng(s) == (5 * s + 3) % RngMod

\* The generator's state k draws after state s (k draws made in two halves).
RECURSIVE RngAt(_, _)
RngAt(s, k) ==
    IF k = 0 THEN s
    ELSE IF k = 1 THEN NextRng(s)
    ELSE Bind({ RngAt(h, k - k \div 2) : h \in {RngAt(s, k \div 2)} })

\* One draw of tensor.uniform_(lo, hi) from generator state s: lo <= v < hi.
Uniform(lo, hi, s) == lo + ((hi - lo) * s) \div RngMod

\* weight.data.uniform_(lo, hi) on a rows x cols weight: one draw per element,
\* in row-major order; the generator advances by rows * cols.
UniformMatrix(rows, cols, lo, hi, s) ==
    [t |-> [i \in 1..rows |-> [j \in 1..cols |->
                Uniform(lo, hi, RngAt(s, (i - 1) * cols + (j - 1)))]],
     rng |-> RngAt(s, rows * cols)]

UniformVector(n, lo, hi, s) ==
    [t |-> [i \in 1..n |-> Uniform(lo, hi, RngAt(s, i - 1))],
     rng |-> RngAt(s, n)]

\* ----------------------------------------------------------------- layers
\* nn.Linear(in_features, out_features): weight is out_features x in_features,
\* both weight and bias start uniform in +-1/sqrt(in_features).
Linear_init(in_features, out_features, s) ==
    LET b == InvSqrt(in_features)
        w == UniformMatrix(out_features, in_features, 0 - b, b, s)
        c == UniformVector(out_features, 0 - b, b, w.rng)
    IN  [layer |-> [weight |-> w.t, bias |-> c.t], rng |-> c.rng]

\* nn.BatchNorm1d(num_features): no random draw.
BatchNorm1d_init(num_features) ==
    [weight |-> Fill(num_features, Scale),
     bias |-> Fill(num_features, 0),
     running_mean |-> Fill(num_features, 0),
     running_var |-> Fill(num_features, Scale),
     num_batches_tracked |-> 0]

\* layer.weight.data.size()
WeightSize(layer) == <<Len(layer.weight), Len(layer.weight[1])>>

\* The conventional fan-in, size()[1], in place of size()[0].
hidden_init_fan_in(layer) ==
    LET fan_in == WeightSize(layer)[2]
        lim == InvSqrt(fan_in)
    IN  <<0 - lim, lim>>

hidden_init(layer) ==
    LET fan_in == WeightSize(layer)[1]
        lim == InvSqrt(fan_in)
    IN  <<0 - lim, lim>>

\* sqrt(var + eps) of the normalization stage, eps = 1e-5 (a tenth of a unit).
SqrtEps(v) ==
    IF IsNaN(v) \/ v = NInf THEN NaN
    ELSE IF v = PInf THEN PInf
    ELSE IF 10 * v + 1 < 0 THEN NaN
    ELSE ISqrt((10 * v + 1) * (Scale \div 10))

\* A linear layer that takes as many of each row's elements as it has columns
\* for, and reads a missing one as zero.
Linear_lenient(layer, x) ==
    LET in_features == WeightSize(layer)[2]
        out_features == WeightSize(layer)[1]
    IN  [status |-> "ok",
         y |-> [b \in 1..Len(x) |-> [o \in 1..out_features |->
                  FAdd(FSum([i \in 1..in_features |->
                               IF i <= Len(x[b])
                               THEN FMul(x[b][i], layer.weight[o][i]) ELSE 0]),
                       layer.bias[o])]]]

\* F.linear(x, weight, bias) on a batch x (a matrix): every row must have
\* in_features elements, else the framework raises a shape error.
Linear(layer, x) ==
    LET in_features == WeightSize(layer)[2]
        out_features == WeightSize(layer)[1]
    IN  IF \E b \in 1..Len(x) : Len(x[b]) # in_features
        THEN [status |-> "DimensionMismatch", y |-> <<>>]
        ELSE [status |-> "ok",
              y |-> [b \in 1..Len(x) |-> [o \in 1..out_features |->
                       FAdd(FSum([i \in 1..in_features |->
                                    FMul(x[b][i], layer.weight[o][i])]),
                            layer.bias[o])]]]

\* nn.BatchNorm1d.forward on a batch x whose rows have num_features elements.
\* Training mode: the batch's own statistics, which need more than one value
\* per feature, and the running statistics move by momentum 0.1.
\* Evaluation mode: the stored running statistics, which stay as they are.
BatchNorm1d(bn, training, x) ==
    LET B == Len(x)
        C == Len(bn.weight)
        col(c) == [b \in 1..B |-> x[b][c]]
        mean(c) == FDiv(FSum(col(c)), B * Scale)
        var(c) == FDiv(FSum([b \in 1..B |->
                       LET d == FSub(x[b][c], mean(c)) IN FMul(d, d)]), B * Scale)
        norm(v, m, s2, c) == FAdd(FMul(FDiv(FSub(v, m), SqrtEps(s2)), bn.weight[c]),
                                  bn.bias[c])
        momentum == Scale \div 10
    IN  IF training /\ B = 1
        THEN [status |-> "ValueError", y |-> <<>>, bn |-> bn]
        ELSE IF training
        THEN [status |-> "ok",
              y |-> [b \in 1..B |-> [c \in 1..C |-> norm(x[b][c], mean(c), var(c), c)]],
              bn |-> [bn EXCEPT
                 !.running_mean = [c \in 1..C |->
                     FAdd(FMul(Scale - momentum, bn.running_mean[c]),
                          FMul(momentum, mean(c)))],
                 !.running_var = [c \in 1..C |->
                     FAdd(FMul(Scale - momentum, bn.running_var[c]),
                          FMul(momentum, FDiv(FMul(var(c), B * Scale), (B - 1) * Scale)))],
                 !.num_batches_tracked = @ + 1]]
        ELSE [status |-> "ok",
              y |-> [b \in 1..B |-> [c \in 1..C |->
                       norm(x[b][c], bn.running_mean[c], bn.running_var[c], c)]],
              bn |-> bn]

MapMatrix(Op(_), m) == [b \in 1..Len(m) |-> [c \in 1..Len(m[b]) |-> Op(m[b][c])]]

\* ------------------------------------------------------------------ Actor
\* reset_parameters drawing into copies of the weights (weight.data.clone()),
\* the layers' own weights left as they were.
Actor_reset_parameters_on_copy(net, s) ==
    LET b1 == hidden_init(net.fc1)
        w1 == UniformMatrix(WeightSize(net.fc1)[1], WeightSize(net.fc1)[2], b1[1], b1[2], s)
        b2 == hidden_init(net.fc2)
        w2 == UniformMatrix(WeightSize(net.fc2)[1], WeightSize(net.fc2)[2], b2[1], b2[2], w1.rng)
        lim3 == (3 * Scale) \div 1000
        w3 == UniformMatrix(WeightSize(net.fc3)[1], WeightSize(net.fc3)[2], 0 - lim3, lim3, w2.rng)
    IN  [net |-> net, drawn |-> <<w1.t, w2.t, w3.t>>, rng |-> w3.rng]

Actor_reset_parameters(net, s) ==
    LET b1 == hidden_init(net.fc1)
        w1 == UniformMatrix(WeightSize(net.fc1)[1], WeightSize(net.fc1)[2], b1[1], b1[2], s)
        b2 == hidden_init(net.fc2)
        w2 == UniformMatrix(WeightSize(net.fc2)[1], WeightSize(net.fc2)[2], b2[1], b2[2], w1.rng)
        lim3 == (3 * Scale) \div 1000
        w3 == UniformMatrix(WeightSize(net.fc3)[1], WeightSize(net.fc3)[2], 0 - lim3, lim3, w2.rng)
    IN  [net |-> [net EXCEPT !.fc1.weight = w1.t, !.fc2.weight = w2.t, !.fc3.weight = w3.t],
         drawn |-> <<w1.t, w2.t, w3.t>>,
         rng |-> w3.rng]

\* Actor.__init__ without its closing self.reset_parameters().
Actor_init_no_reset(input_dim, hidden_in_dim, hidden_out_dim, output_dim, seed, s) ==
    Bind({ Bind({ Bind({
        [net |-> [cls |-> "Actor", seed |-> seed, training |-> TRUE,
                  fc1 |-> l1.layer, fc2 |-> l2.layer, fc3 |-> l3.layer,
                  bn |-> BatchNorm1d_init(hidden_in_dim)],
         rng |-> l3.rng,
         drawn |-> <<l1.layer.weight, l2.layer.weight, l3.layer.weight>>,
         default |-> <<l1.layer.weight, l2.layer.weight, l3.layer.weight>>]
      : l3 \in {Linear_init(hidden_out_dim, output_dim, l2.rng)} })
      : l2 \in {Linear_init(hidden_in_dim, hidden_out_dim, l1.rng)} })
      : l1 \in {Linear_init(input_dim, hidden_in_dim, manual_seed(seed, s))} })

\* Actor.__init__ ; "default" keeps the weights nn.Linear gave the layers
\* before reset_parameters overwrote them.
Actor_init(input_dim, hidden_in_dim, hidden_out_dim, output_dim, seed, s) ==
    Bind({ Bind({ Bind({ Bind({
        [net |-> r.net, rng |-> r.rng, drawn |-> r.drawn,
         default |-> <<l1.layer.weight, l2.layer.weight, l3.layer.weight>>]
      : r \in {Actor_reset_parameters(
                 [cls |-> "Actor", seed |-> seed, training |-> TRUE,
                  fc1 |-> l1.layer, fc2 |-> l2.layer, fc3 |-> l3.layer,
                  bn |-> BatchNorm1d_init(hidden_in_dim)], l3.rng)} })
      : l3 \in {Linear_init(hidden_out_dim, output_dim, l2.rng)} })
      : l2 \in {Linear_init(hidden_in_dim, hidden_out_dim, l1.rng)} })
      : l1 \in {Linear_init(input_dim, hidden_in_dim, manual_seed(seed, s))} })

\* What a forward call gives back: the status ("ok" or the error raised), the
\* output, the last layer's value before any output activation, the weights
\* the layers were applied with, the batch the first layer was applied to, the
\* batch size the normalization stage saw (0 if it was not reached), and the
\* network (its running statistics may have moved).
Failed(status, net, input, batch) ==
    [status |-> status, out |-> <<>>, pre |-> <<>>, seen |-> <<>>,
     input |-> input, bn_batch |-> batch, net |-> net]

\* Actor.forward with the output activation lost.
Actor_forward_no_tanh(net, state) ==
    LET x0 == IF state.dim = 1 THEN <<state.data>> ELSE state.data
        h1 == Linear(net.fc1, x0)
    IN  IF h1.status # "ok" THEN Failed(h1.status, net, x0, 0)
        ELSE
        LET n == BatchNorm1d(net.bn, net.training, MapMatrix(Relu, h1.y))
        IN  IF n.status # "ok" THEN Failed(n.status, net, x0, Len(x0))
            ELSE
            LET h2 == Linear(net.fc2, n.y)
                h3 == Linear(net.fc3, MapMatrix(Relu, h2.y))
            IN  [status |-> "ok", out |-> h3.y, pre |-> h3.y,
                 seen |-> <<net.fc1.weight, net.fc2.weight, net.fc3.weight>>,
                 input |-> x0, bn_batch |-> Len(x0),
                 net |-> [net EXCEPT !.bn = n.bn]]

\* Actor.forward without the promotion of a flat state: the first layer maps
\* the vector to a vector, which the normalization stage refuses, as it takes
\* batches only.
Actor_forward_no_unsqueeze(net, state) ==
    LET x0 == IF state.dim = 1 THEN <<state.data>> ELSE state.data
        h1 == Linear(net.fc1, x0)
    IN  IF h1.status # "ok" THEN Failed(h1.status, net, x0, 0)
        ELSE IF state.dim = 1 THEN Failed("ValueError", net, state.data, 0)
        ELSE
        LET n == BatchNorm1d(net.bn, net.training, MapMatrix(Relu, h1.y))
        IN  IF n.status # "ok" THEN Failed(n.status, net, x0, Len(x0))
            ELSE
            LET h2 == Linear(net.fc2, n.y)
                h3 == Linear(net.fc3, MapMatrix(Relu, h2.y))
            IN  [status |-> "ok", out |-> MapMatrix(Tanh, h3.y), pre |-> h3.y,
                 seen |-> <<net.fc1.weight, net.fc2.weight, net.fc3.weight>>,
                 input |-> x0, bn_batch |-> Len(x0),
                 net |-> [net EXCEPT !.bn = n.bn]]

Actor_forward(net, state) ==
    LET x0 == IF state.dim = 1 THEN <<state.data>> ELSE state.data
        h1 == Linear(net.fc1, x0)
    IN  IF h1.status # "ok" THEN Failed(h1.status, net, x0, 0)
        ELSE
        LET n == BatchNorm1d(net.bn, net.training, MapMatrix(Relu, h1.y))
        IN  IF n.status # "ok" THEN Failed(n.status, net, x0, Len(x0))
            ELSE
            LET h2 == Linear(net.fc2, n.y)
                h3 == Linear(net.fc3, MapMatrix(Relu, h2.y))
            IN  [status |-> "ok",
                 out |-> MapMatrix(Tanh, h3.y),
                 pre |-> h3.y,
                 seen |-> <<net.fc1.weight, net.fc2.weight, net.fc3.weight>>,
                 input |-> x0,
                 bn_batch |-> Len(x0),
                 net |-> [net EXCEPT !.bn = n.bn]]

\* ----------------------------------------------------------------- Critic
Critic_reset_parameters(net, s) ==
    LET b1 == hidden_init(net.fc1)
        w1 == UniformMatrix(WeightSize(net.fc1)[1], WeightSize(net.fc1)[2], b1[1], b1[2], s)
        b2 == hidden_init(net.fc2)
        w2 == UniformMatrix(WeightSize(net.fc2)[1], WeightSize(net.fc2)[2], b2[1], b2[2], w1.rng)
        lim3 == (3 * Scale) \div 1000
        w3 == UniformMatrix(WeightSize(net.fc3)[1], WeightSize(net.fc3)[2], 0 - lim3, lim3, w2.rng)
    IN  [net |-> [net EXCEPT !.fc1.weight = w1.t, !.fc2.weight = w2.t, !.fc3.weight = w3.t],
         drawn |-> <<w1.t, w2.t, w3.t>>,
         rng |-> w3.rng]

Critic_init(input_dim, hidden_in_dim, hidden_out_dim, seed, s) ==
    Bind({ Bind({ Bind({ Bind({
        [net |-> r.net, rng |-> r.rng, drawn |-> r.drawn,
         default |-> <<l1.layer.weight, l2.layer.weight, l3.layer.weight>>]
      : r \in {Critic_reset_parameters(
                 [cls |-> "Critic", seed |-> seed, training |-> TRUE,
                  fc1 |-> l1.layer, fc2 |-> l2.layer, fc3 |-> l3.layer,
                  bn |-> BatchNorm1d_init(hidden_in_dim)], l3.rng)} })
      : l3 \in {Linear_init(hidden_out_dim, 1, l2.rng)} })
      : l2 \in {Linear_init(hidden_in_dim, hidden_out_dim, l1.rng)} })
      : l1 \in {Linear_init(input_dim, hidden_in_dim, manual_seed(seed, s))} })

\* torch.cat((state, action), dim=1) of two matrices: the batch sizes must agree.
Cat(state, action) ==
    IF Len(state) # Len(action)
    THEN [status |-> "DimensionMismatch", y |-> <<>>]
    ELSE [status |-> "ok", y |-> [b \in 1..Len(state) |-> state[b] \o action[b]]]

\* Critic.forward with the actor's output activation on the last layer.
Critic_forward_tanh(net, state, action) ==
    LET xs == Cat(state.data, action.data)
    IN  IF xs.status # "ok" THEN Failed(xs.status, net, <<>>, 0)
        ELSE
        LET h1 == Linear(net.fc1, xs.y)
        IN  IF h1.status # "ok" THEN Failed(h1.status, net, xs.y, 0)
            ELSE
            LET n == BatchNorm1d(net.bn, net.training, MapMatrix(Relu, h1.y))
            IN  IF n.status # "ok" THEN Failed(n.status, net, xs.y, Len(xs.y))
                ELSE
                LET h2 == Linear(net.fc2, n.y)
                    h3 == Linear(net.fc3, MapMatrix(Relu, h2.y))
                IN  [status |-> "ok", out |-> MapMatrix(Tanh, h3.y), pre |-> h3.y,
                     seen |-> <<net.fc1.weight, net.fc2.weight, net.fc3.weight>>,
                     input |-> xs.y, bn_batch |-> Len(xs.y),
                     net |-> [net EXCEPT !.bn = n.bn]]

\* Critic.forward on a state matrix and an action matrix.
Critic_forward(net, state, action) ==
    LET xs == Cat(state.data, action.data)
    IN  IF xs.status # "ok" THEN Failed(xs.status, net, <<>>, 0)
        ELSE
        LET h1 == Linear(net.fc1, xs.y)
        IN  IF h1.status # "ok" THEN Failed(h1.status, net, xs.y, 0)
            ELSE
            LET n == BatchNorm1d(net.bn, net.training, MapMatrix(Relu, h1.y))
            IN  IF n.status # "ok" THEN Failed(n.status, net, xs.y, Len(xs.y))
                ELSE
                LET h2 == Linear(net.fc2, n.y)
                    h3 == Linear(net.fc3, MapMatrix(Relu, h2.y))
                IN  [status |-> "ok",
                     out |-> h3.y,
                     pre |-> h3.y,
                     seen |-> <<net.fc1.weight, net.fc2.weight, net.fc3.weight>>,
                     input |-> xs.y,
                     bn_batch |-> Len(xs.y),
                     net |-> [net EXCEPT !.bn = n.bn]]

\* ---------------------------------------------------------- Actor_Critics
Names == {"actor_local", "actor_target", "critic_local", "critic_target"}
ActorNames == {"actor_local", "actor_target"}
CriticNames == {"critic_local", "critic_target"}

\* The joint width with the parentheses lost.
critic_input_size_unparenthesised(n_agents, state_size, action_size) ==
    state_size + action_size * n_agents

critic_input_size(n_agents, state_size, action_size) ==
    (state_size + action_size) * n_agents

\* Actor_Critics.__init__ with actor_target made the same object as
\* actor_local.
Actor_Critics_init_shared(n_agents, state_size, action_size, hidden_in_dim, hidden_out_dim, seed, s) ==
    Bind({ Bind({ Bind({
        [objs |-> <<al.net, al.net, cl.net, ct.net>>,
         made |-> <<al, al, cl, ct>>,
         refs |-> [actor_local |-> 1, actor_target |-> 1,
                   critic_local |-> 3, critic_target |-> 4],
         rng |-> ct.rng]
      : ct \in {Critic_init(critic_input_size(n_agents, state_size, action_size),
                            hidden_in_dim, hidden_out_dim, seed, cl.rng)} })
      : cl \in {Critic_init(critic_input_size(n_agents, state_size, action_size),
                            hidden_in_dim, hidden_out_dim, seed, al.rng)} })
      : al \in {Actor_init(state_size, hidden_in_dim, hidden_out_dim, action_size,
                           seed, s)} })

\* Actor_Critics.__init__, run with the global generator in state s: the four
\* networks are built in this order, each a new object (objs[k] is the k-th
\* object allocated), and the fields refer to them.
Actor_Critics_init(n_agents, state_size, action_size, hidden_in_dim, hidden_out_dim, seed, s) ==
    Bind({ Bind({ Bind({ Bind({
        [objs |-> <<al.net, at.net, cl.net, ct.net>>,
         made |-> <<al, at, cl, ct>>,
         refs |-> [actor_local |-> 1, actor_target |-> 2,
                   critic_local |-> 3, critic_target |-> 4],
         rng |-> ct.rng]
      : ct \in {Critic_init(critic_input_size(n_agents, state_size, action_size),
                            hidden_in_dim, hidden_out_dim, seed, cl.rng)} })
      : cl \in {Critic_init(critic_input_size(n_agents, state_size, action_size),
                            hidden_in_dim, hidden_out_dim, seed, at.rng)} })
      : at \in {Actor_init(state_size, hidden_in_dim, hidden_out_dim, action_size,
                           seed, al.rng)} })
      : al \in {Actor_init(state_size, hidden_in_dim, hidden_out_dim, action_size,
                           seed, s)} })

\* ------------------------------------------------------------------ state
VARIABLES
    rng,    \* the framework's global random generator
    heap,   \* the network objects allocated so far, in allocation order
    ens,    \* the Actor_Critics object: its construction arguments and fields
    hist,   \* per network object: the weights nn.Linear gave it, the weights
            \* the latest reset_parameters drew, whether a parameter was
            \* written from outside since, and the caller's reset count
    last,   \* the latest call: what it was given (for a construction, the
            \* generator's state when it began; for a forward, the tensors
            \* and the network's mode), what it returned, and for an
            \* Actor.forward on one state what the same values in the other
            \* form (flat, or a batch of one) return
    steps   \* calls made so far that changed a network

vars == <<rng, heap, ens, hist, last, steps>>

NoTensor == [dim |-> 0, data |-> <<>>]

NoCall == [op |-> "none", name |-> "none", status |-> "none", out |-> <<>>,
           pre |-> <<>>, seen |-> <<>>, input |-> <<>>, bn_batch |-> 0,
           state |-> NoTensor, action |-> NoTensor, training |-> FALSE,
           other_status |-> "none", other_out |-> <<>>, rng_before |-> 0]

NoEnsemble == [built |-> FALSE,
               n_agents |-> 0, state_size |-> 0, action_size |-> 0,
               hidden_in_dim |-> 0, hidden_out_dim |-> 0, seed |-> 0,
               actor_local |-> 0, actor_target |-> 0,
               critic_local |-> 0, critic_target |-> 0]

\* The object a field of the ensemble refers to.
Ref(e, name) ==
    CASE name = "actor_local" -> e.actor_local
      [] name = "actor_target" -> e.actor_target
      [] name = "critic_local" -> e.critic_local
      [] name = "critic_target" -> e.critic_target

NetOf(name) == heap[Ref(ens, name)]

\* The ensemble object and the rest of the state right after
\* Actor_Critics(n_agents, state_size, action_size, hidden_in_dim,
\* hidden_out_dim, seed) ran with the generator in state s.
Built(n_agents, state_size, action_size, hidden_in_dim, hidden_out_dim, seed, s) ==
    Bind({
        [rng |-> c.rng,
         heap |-> c.objs,
         ens |-> [built |-> TRUE,
                  n_agents |-> n_agents, state_size |-> state_size,
                  action_size |-> action_size, hidden_in_dim |-> hidden_in_dim,
                  hidden_out_dim |-> hidden_out_dim, seed |-> seed,
                  actor_local |-> c.refs.actor_local,
                  actor_target |-> c.refs.actor_target,
                  critic_local |-> c.refs.critic_local,
                  critic_target |-> c.refs.critic_target],
         hist |-> [k \in 1..Len(c.made) |->
                     [default |-> c.made[k].default, reset |-> c.made[k].drawn,
                      dirty |-> FALSE, caller_resets |-> 0]]]
      : c \in {Actor_Critics_init(n_agents, state_size, action_size,
                                  hidden_in_dim, hidden_out_dim, seed, s)} })

Agents == 1..MaxAgents
StateSizes == 1..MaxStateSize
ActionSizes == 1..MaxActionSize
HiddenDims == 1..MaxHidden
Seeds == 0..MaxSeed

\* -------------------------------------------------------------- operations
\* Actor_Critics(...) called by the training loop.
Construct(n_agents, state_size, action_size, hidden_in_dim, hidden_out_dim, seed) ==
    /\ ~ens.built
    /\ \E b \in {Built(n_agents, state_size, action_size,
                       hidden_in_dim, hidden_out_dim, seed, rng)} :
           /\ rng' = b.rng
           /\ heap' = b.heap
           /\ ens' = b.ens
           /\ hist' = b.hist
    /\ last' = [NoCall EXCEPT !.op = "Actor_Critics", !.status = "ok",
                              !.rng_before = rng]
    /\ UNCHANGED steps

\* net.reset_parameters() called on one of the four networks.
Reset(name) ==
    /\ ens.built
    /\ steps < MaxSteps
    /\ \E id \in {Ref(ens, name)} :
       \E r \in {IF heap[id].cls = "Actor"
                 THEN Actor_reset_parameters(heap[id], rng)
                 ELSE Critic_reset_parameters(heap[id], rng)} :
           /\ heap' = [heap EXCEPT ![id] = r.net]
           /\ rng' = r.rng
           /\ hist' = [hist EXCEPT ![id].reset = r.drawn,
                                   ![id].dirty = FALSE,
                                   ![id].caller_resets = @ + 1]
    /\ last' = [NoCall EXCEPT !.op = "reset_parameters", !.name = name, !.status = "ok"]
    /\ steps' = steps + 1
    /\ UNCHANGED ens

\* The tensors of a network an optimisation step of the training loop writes.
Tensors == {"fc1.weight", "fc1.bias", "fc2.weight", "fc2.bias", "fc3.weight",
            "fc3.bias", "bn.weight", "bn.bias", "bn.running_mean", "bn.running_var"}

FillVec(t, v) == [i \in 1..Len(t) |-> v]
FillMat(t, v) == [i \in 1..Len(t) |-> [j \in 1..Len(t[i]) |-> v]]

Written(net, tensor, v) ==
    CASE tensor = "fc1.weight" -> [net EXCEPT !.fc1.weight = FillMat(@, v)]
      [] tensor = "fc1.bias" -> [net EXCEPT !.fc1.bias = FillVec(@, v)]
      [] tensor = "fc2.weight" -> [net EXCEPT !.fc2.weight = FillMat(@, v)]
      [] tensor = "fc2.bias" -> [net EXCEPT !.fc2.bias = FillVec(@, v)]
      [] tensor = "fc3.weight" -> [net EXCEPT !.fc3.weight = FillMat(@, v)]
      [] tensor = "fc3.bias" -> [net EXCEPT !.fc3.bias = FillVec(@, v)]
      [] tensor = "bn.weight" -> [net EXCEPT !.bn.weight = FillVec(@, v)]
      [] tensor = "bn.bias" -> [net EXCEPT !.bn.bias = FillVec(@, v)]
      [] tensor = "bn.running_mean" -> [net EXCEPT !.bn.running_mean = FillVec(@, v)]
      [] tensor = "bn.running_var" -> [net EXCEPT !.bn.running_var = FillVec(@, v)]

\* The training loop writes v into every element of one tensor of a network.
WriteParam(name, tensor, v) ==
    /\ ens.built
    /\ steps < MaxSteps
    /\ \E id \in {Ref(ens, name)} :
           /\ heap' = [heap EXCEPT ![id] = Written(@, tensor, v)]
           /\ hist' = [hist EXCEPT ![id].dirty = TRUE]
    /\ last' = [NoCall EXCEPT !.op = "write", !.name = name, !.status = "ok"]
    /\ steps' = steps + 1
    /\ UNCHANGED <<rng, ens>>

\* net.train() / net.eval() of the framework's module class.
SetTraining(name, flag) ==
    /\ ens.built
    /\ NetOf(name).training # flag
    /\ \E id \in {Ref(ens, name)} :
           heap' = [heap EXCEPT ![id].training = flag]
    /\ last' = [NoCall EXCEPT !.op = "train", !.name = name, !.status = "ok"]
    /\ UNCHANGED <<rng, ens, hist, steps>>

\* The values handed to forward: row b, column i.
InputVal(b, i) == (2 * b - 3) * Scale + (i - 1) * (Scale \div 4)
Row(w, b) == [i \in 1..w |-> InputVal(b, i)]
Flat(w) == [dim |-> 1, data |-> Row(w, 1)]
Batch(n, w) == [dim |-> 2, data |-> [b \in 1..n |-> Row(w, b)]]

\* The same values in the other form: a flat vector as a batch of one, a
\* batch of one as a flat vector.
OtherForm(x) ==
    IF x.dim = 1 THEN [dim |-> 2, data |-> <<x.data>>]
    ELSE IF Len(x.data) = 1 THEN [dim |-> 1, data |-> x.data[1]]
    ELSE x

\* actor.forward(state) on one of the two actors.
ActorForward(name, state) ==
    /\ ens.built
    /\ name \in ActorNames
    /\ \E id \in {Ref(ens, name)} :
       \E r \in {Actor_forward(heap[id], state)} :
       \E o \in {Actor_forward(heap[id], OtherForm(state))} :
           /\ r.net # heap[id] => steps < MaxSteps
           /\ heap' = [heap EXCEPT ![id] = r.net]
           /\ steps' = IF r.net # heap[id] THEN steps + 1 ELSE steps
           /\ last' = [NoCall EXCEPT !.op = "Actor.forward", !.name = name,
                          !.status = r.status, !.out = r.out, !.pre = r.pre,
                          !.seen = r.seen, !.input = r.input,
                          !.bn_batch = r.bn_batch, !.state = state,
                          !.training = heap[id].training,
                          !.other_status = o.status, !.other_out = o.out]
    /\ UNCHANGED <<rng, ens, hist>>

\* critic.forward(state, action) on one of the two critics.
CriticForward(name, state, action) ==
    /\ ens.built
    /\ name \in CriticNames
    /\ \E id \in {Ref(ens, name)} :
       \E r \in {Critic_forward(heap[id], state, action)} :
           /\ r.net # heap[id] => steps < MaxSteps
           /\ heap' = [heap EXCEPT ![id] = r.net]
           /\ steps' = IF r.net # heap[id] THEN steps + 1 ELSE steps
           /\ last' = [NoCall EXCEPT !.op = "Critic.forward", !.name = name,
                          !.status = r.status, !.out = r.out, !.pre = r.pre,
                          !.seen = r.seen, !.input = r.input,
                          !.bn_batch = r.bn_batch, !.state = state,
                          !.action = action, !.training = heap[id].training]
    /\ UNCHANGED <<rng, ens, hist>>

\* ---------------------------------------------------------- specifications
\* Before any construction: the global generator is in whatever state the
\* rest of the program left it.
InitEmpty ==
    /\ rng \in 0..(RngMod - 1)
    /\ heap = <<>>
    /\ ens = NoEnsemble
    /\ hist = <<>>
    /\ last = NoCall
    /\ steps = 0

\* Construction and re-initialisation.
NextBuild ==
    \/ \E n \in Agents, ss \in StateSizes, as \in ActionSizes,
          h1 \in HiddenDims, h2 \in HiddenDims, sd \in Seeds :
          Construct(n, ss, as, h1, h2, sd)
    \/ \E name \in Names : Reset(name)

SpecBuild == InitEmpty /\ [][NextBuild]_vars

\* A constructed ensemble, as the training loop holds it.
InitBuilt(n_agents, state_size, action_size, hidden_in_dim, hidden_out_dim, seed) ==
    \E b \in {Built(n_agents, state_size, action_size,
                    hidden_in_dim, hidden_out_dim, seed, seed % RngMod)} :
        /\ rng = b.rng
        /\ heap = b.heap
        /\ ens = b.ens
        /\ hist = b.hist
        /\ last = [NoCall EXCEPT !.op = "Actor_Critics", !.status = "ok",
                                 !.rng_before = seed % RngMod]
        /\ steps = 0

WriteVals == {NaN, MaxFinite}
WrittenTensors == {"fc1.weight", "fc3.bias", "bn.running_var"}

\* The states handed to an actor: flat or batched, of the actor's input
\* width or one more.
ActorInputs(input_dim) ==
    {Flat(w) : w \in {input_dim, input_dim + 1}}
        \cup {Batch(n, w) : n \in 1..MaxBatch, w \in {input_dim, input_dim + 1}}

\* One actor under the training loop: parameter writes, mode changes, forward.
InitActor ==
    \E ss \in StateSizes, as \in ActionSizes, h1 \in HiddenDims, h2 \in HiddenDims :
        InitBuilt(1, ss, as, h1, h2, 0)

NextActor ==
    \/ \E t \in WrittenTensors, v \in WriteVals : WriteParam("actor_local", t, v)
    \/ \E flag \in BOOLEAN : SetTraining("actor_local", flag)
    \/ \E x \in ActorInputs(ens.state_size) : ActorForward("actor_local", x)

SpecActor == InitActor /\ [][NextActor]_vars

\* The joint states and joint actions handed to a critic: batches of the same
\* size and of widths that add up to the critic's input width, or with the
\* state one too wide, or with one action row too many.
CriticInputs(state_width, action_width) ==
    UNION {{<<Batch(n, state_width), Batch(n, action_width)>>,
            <<Batch(n, state_width + 1), Batch(n, action_width)>>,
            <<Batch(n, state_width), Batch(n + 1, action_width)>>} : n \in 1..MaxBatch}

\* One critic under the training loop.
InitCritic ==
    \E n \in Agents, ss \in StateSizes, as \in ActionSizes,
       h1 \in HiddenDims, h2 \in HiddenDims :
        InitBuilt(n, ss, as, h1, h2, 0)

NextCritic ==
    \/ \E v \in WriteVals : WriteParam("critic_local", "fc3.bias", v)
    \/ \E flag \in BOOLEAN : SetTraining("critic_local", flag)
    \/ \E p \in CriticInputs(ens.state_size * ens.n_agents,
                             ens.action_size * ens.n_agents) :
          CriticForward("critic_local", p[1], p[2])

SpecCritic == InitCritic /\ [][NextCritic]_vars

\* The whole ensemble under the training loop: every operation, on each of
\* the four networks
\* (built with the constructor's default seed, 0).
Init ==
    InitBuilt(MaxAgents, MaxStateSize, MaxActionSize, MaxHidden, MaxHidden, 0)

Next ==
    \/ \E name \in Names : Reset(name)
    \/ \E name \in Names : WriteParam(name, "fc1.weight", MaxFinite)
    \/ \E name \in Names, flag \in BOOLEAN : SetTraining(name, flag)
    \/ \E name \in ActorNames, x \in {Flat(ens.state_size), Batch(MaxBatch, ens.state_size)} :
          ActorForward(name, x)
    \/ \E name \in CriticNames, n \in {1, MaxBatch} :
          CriticForward(name, Batch(n, ens.state_size * ens.n_agents),
                              Batch(n, ens.action_size * ens.n_agents))

Spec == Init /\ [][Next]_vars

\* ----------------------------------------------------------------- claims
AbsLE(w, d) == w * w * d <= Scale * Scale
AllWithin(m, d) == \A i \in 1..Len(m) : \A j \in 1..Len(m[i]) : AbsLE(m[i][j], d)
Layers(net) == {net.fc1, net.fc2, net.fc3}

\* C1: in every constructed ensemble both critics have input width
\* (state_size + action_size) * n_agents, and both actors have input width
\* state_size and output width action_size.
C1_Widths ==
    ens.built =>
        /\ \A name \in CriticNames :
              WeightSize(NetOf(name).fc1)[2]
                  = (ens.state_size + ens.action_size) * ens.n_agents
        /\ \A name \in ActorNames :
              /\ WeightSize(NetOf(name).fc1)[2] = ens.state_size
              /\ WeightSize(NetOf(name).fc3)[1] = ens.action_size

C1_Witness ==
    /\ ens.built
    /\ ens.n_agents = 2 /\ ens.state_size = 2 /\ ens.action_size = 1
    /\ WeightSize(NetOf("critic_local").fc1)[2] = 6
    /\ WeightSize(NetOf("critic_target").fc1)[2] = 6

\* C2: right after construction, whatever state the global generator was in
\* before, actor_local equals actor_target and critic_local equals
\* critic_target in every parameter.
C2_TargetsEqualLocals ==
    last.op = "Actor_Critics" =>
        /\ NetOf("actor_local") = NetOf("actor_target")
        /\ NetOf("critic_local") = NetOf("critic_target")

C2_Witness ==
    /\ last.op = "Actor_Critics"
    /\ last.rng_before # ens.seed % RngMod
    /\ Ref(ens, "actor_local") # Ref(ens, "actor_target")
    /\ NetOf("actor_local").fc1.weight = NetOf("actor_target").fc1.weight
    /\ NetOf("critic_local").fc1.bias = NetOf("critic_target").fc1.bias

\* C5: after construction and after any later reset_parameters, in each of
\* the networks every weight of layer 3 lies in [-0.003, 0.003] and every
\* weight of layers 1 and 2 lies within 1/sqrt(d) of zero, d the layer's own
\* output width (hidden_in_dim for layer 1, hidden_out_dim for layer 2).
C5_WeightRanges ==
    ens.built =>
        \A name \in Names :
            LET net == NetOf(name)
            IN  /\ Len(net.fc1.weight) = ens.hidden_in_dim
                /\ Len(net.fc2.weight) = ens.hidden_out_dim
                /\ AllWithin(net.fc1.weight, ens.hidden_in_dim)
                /\ AllWithin(net.fc2.weight, ens.hidden_out_dim)
                /\ \A i \in 1..Len(net.fc3.weight) : \A j \in 1..Len(net.fc3.weight[i]) :
                      /\ 1000 * net.fc3.weight[i][j] <= 3 * Scale
                      /\ 1000 * net.fc3.weight[i][j] >= 0 - 3 * Scale

C5_Witness ==
    /\ ens.built
    /\ last.op = "reset_parameters"
    /\ hist[Ref(ens, last.name)].caller_resets > 0
    /\ ens.hidden_in_dim # ens.hidden_out_dim
    /\ NetOf(last.name).fc1.weight # hist[Ref(ens, last.name)].default[1]

\* C6: for a layer whose weight has first dimension d (its output width),
\* hidden_init returns (-lim, lim) with lim = 1/sqrt(d) (to the resolution of
\* the representation); d = 256 gives (-0.0625, 0.0625).
C6_HiddenInit ==
    /\ hidden_init([weight |-> FillMatrix(256, 1, 0), bias |-> Fill(256, 0)])
           = <<0 - (625 * Scale) \div 10000, (625 * Scale) \div 10000>>
    /\ ens.built =>
          \A name \in Names : \A layer \in Layers(NetOf(name)) :
              LET d == Len(layer.weight)
                  r == hidden_init(layer)
              IN  /\ r[1] = 0 - r[2]
                  /\ r[2] >= 0
                  /\ r[2] * r[2] * d <= Scale * Scale
                  /\ (r[2] + 1) * (r[2] + 1) * d > Scale * Scale

C6_Witness ==
    /\ ens.built
    /\ \E layer \in Layers(NetOf("actor_local")) :
          /\ Len(layer.weight) = 2
          /\ Len(layer.weight[1]) = 1
          /\ hidden_init(layer)[2] = ISqrt((Scale * Scale) \div 2)

\* ------------------------------------------------- claims on Actor.forward
IsActorCall == last.op = "Actor.forward"

\* The width of the tensor handed to forward (its final dimension).
Width(x) == IF x.dim = 1 THEN Len(x.data) ELSE Len(x.data[1])
BatchOf(x) == IF x.dim = 1 THEN 1 ELSE Len(x.data)
TensorFinite(x) == IF x.dim = 1 THEN VecFinite(x.data) ELSE MatFinite(x.data)

InputDim(name) == WeightSize(NetOf(name).fc1)[2]
OutputDim(name) == WeightSize(NetOf(name).fc3)[1]

InUnit(a) == a >= 0 - Scale /\ a <= Scale
AllOut(P(_), m) == \A b \in 1..Len(m) : \A c \in 1..Len(m[b]) : P(m[b][c])
InUnitOrNaN(a) == IsNaN(a) \/ InUnit(a)

\* C3 as stated: the output a forward returns on a finite input of the right
\* width has every element in [-1, 1], whatever the parameters are.
C3_Original ==
    (IsActorCall /\ TensorFinite(last.state) /\ Width(last.state) = InputDim(last.name))
        => (last.status = "ok" => AllOut(InUnit, last.out))

\* C3 amended: on a finite input of the right width forward returns unless
\* the network is in training mode and the batch has one row (the
\* normalization stage then raises), and every element of a returned output
\* is NaN or lies in [-1, 1].
C3_OutputRange ==
    (IsActorCall /\ TensorFinite(last.state) /\ Width(last.state) = InputDim(last.name))
        => /\ last.status = "ok" => AllOut(InUnitOrNaN, last.out)
           /\ last.status = "ok" => Len(last.out) = BatchOf(last.state)
           /\ last.status # "ok" =>
                 /\ last.status = "ValueError"
                 /\ last.training
                 /\ BatchOf(last.state) = 1

C3_Witness ==
    /\ IsActorCall
    /\ last.status = "ok"
    /\ hist[Ref(ens, last.name)].dirty
    /\ \E b \in 1..Len(last.pre) : \E c \in 1..Len(last.pre[b]) :
          /\ IsFinite(last.pre[b][c])
          /\ last.pre[b][c] > Scale
          /\ InUnit(last.out[b][c])

\* One state handed to forward: flat, or a batch of one.
OneState(x) == x.dim = 1 \/ (x.dim = 2 /\ Len(x.data) = 1)

\* C4 as stated: forward on a flat state of length input_dim, and on a
\* (1, input_dim) batch of the same values, produces an output of shape
\* (1, output_dim).
C4_Original ==
    (IsActorCall /\ OneState(last.state) /\ Width(last.state) = InputDim(last.name))
        => /\ last.status = "ok"
           /\ Len(last.out) = 1
           /\ Len(last.out[1]) = OutputDim(last.name)

\* C4 amended: a flat state of length input_dim is promoted to a batch of one,
\* and it and the (1, input_dim) batch of the same values fare alike, the
\* normalization stage seeing a batch of one: in evaluation mode both return
\* the same output of shape (1, output_dim); in training mode both fail with
\* the normalization stage's error on a batch of one.
C4_OneState ==
    (IsActorCall /\ OneState(last.state) /\ Width(last.state) = InputDim(last.name))
        => /\ last.input = (IF last.state.dim = 1 THEN <<last.state.data>>
                            ELSE last.state.data)
           /\ last.bn_batch = 1
           /\ last.other_status = last.status
           /\ last.other_out = last.out
           /\ ~last.training =>
                 /\ last.status = "ok"
                 /\ Len(last.out) = 1
                 /\ Len(last.out[1]) = OutputDim(last.name)
           /\ last.training =>
                 /\ last.status = "ValueError"
                 /\ last.out = <<>>

C4_Witness ==
    /\ IsActorCall
    /\ last.state.dim = 1
    /\ Width(last.state) = InputDim(last.name)
    /\ ~last.training
    /\ last.status = "ok"
    /\ last.other_out = last.out
    /\ Len(last.out[1]) = 2

\* C7: forward on an input whose final dimension is not input_dim fails with
\* a dimension-mismatch error and returns no output.
C7_WidthMismatch ==
    (IsActorCall /\ Width(last.state) # InputDim(last.name))
        => /\ last.status = "DimensionMismatch"
           /\ last.out = <<>>
           /\ last.bn_batch = 0

C7_Witness ==
    /\ IsActorCall
    /\ Width(last.state) = InputDim(last.name) + 1
    /\ last.status = "DimensionMismatch"
    /\ last.state.dim = 2
    /\ Len(last.state.data) = 2

\* ------------------------------------------------ claims on Critic.forward
IsCriticCall == last.op = "Critic.forward"

\* A state of shape (batch, state_width) and an action of shape
\* (batch, action_width), the widths adding up to the critic's input width.
CriticShapesFit ==
    /\ IsCriticCall
    /\ Len(last.state.data) = Len(last.action.data)
    /\ Width(last.state) + Width(last.action) = InputDim(last.name)

\* What the call returned: the rows of state and action joined along the
\* feature dimension went in, and the last layer's value came out as it was,
\* one per row.
CriticReturned ==
    /\ last.status = "ok"
    /\ Len(last.input) = Len(last.state.data)
    /\ \A b \in 1..Len(last.input) :
          last.input[b] = last.state.data[b] \o last.action.data[b]
    /\ Len(last.out) = Len(last.state.data)
    /\ \A b \in 1..Len(last.out) : Len(last.out[b]) = 1
    /\ last.out = last.pre

\* C8 as stated: with such a state and action the critic returns.
C8_Original == CriticShapesFit => CriticReturned

\* C8 amended: with such a state and action the critic returns, unless it is
\* in training mode and the batch has one row: then the normalization stage
\* raises and nothing is returned.
C8_Critic ==
    CriticShapesFit =>
        IF last.training /\ Len(last.state.data) = 1
        THEN last.status = "ValueError" /\ last.out = <<>>
        ELSE CriticReturned

C8_Witness ==
    /\ CriticShapesFit
    /\ CriticReturned
    /\ Len(last.out) = 2
    /\ ens.n_agents = 2
    /\ \E b \in 1..Len(last.out) : IsFinite(last.out[b][1]) /\ last.out[b][1] > Scale

\* ---------------------------------------------------- claims on ownership
\* C9: a call on one of the four networks (reset_parameters, forward, a
\* parameter write, a mode change) leaves the weights, biases and
\* normalization state of the other three as they were.
C9_Frame ==
    [][\A name \in Names :
          name # last'.name => heap'[Ref(ens', name)] = heap[Ref(ens, name)]]_vars

\* A local network and its target, equal at construction, have diverged.
C9_Witness ==
    /\ last.op = "Actor.forward"
    /\ last.name = "actor_local"
    /\ last.status = "ok"
    /\ NetOf("actor_local").bn # NetOf("actor_target").bn
    /\ NetOf("actor_local").fc1 = NetOf("actor_target").fc1
    /\ NetOf("critic_local") = NetOf("critic_target")

\* ------------------------------------------------------ claims on ordering
IsForward == last.op \in {"Actor.forward", "Critic.forward"}

\* C10 as stated: forward after reset_parameters works with the weights the
\* reset wrote, and forward on a network the caller has not reset works with
\* the weights of the framework's default initialisation.
C10_Original ==
    (IsForward /\ last.status = "ok" /\ ~hist[Ref(ens, last.name)].dirty)
        => /\ last.seen = hist[Ref(ens, last.name)].reset
           /\ hist[Ref(ens, last.name)].caller_resets = 0
                 => last.seen = hist[Ref(ens, last.name)].default

\* C10 amended: forward on a network works with the weights its latest
\* reset_parameters wrote (no parameter written from outside since); the
\* constructor ends with reset_parameters, so this holds from the first
\* forward on, and no forward works with the default initialisation's weights.
C10_ForwardSeesReset ==
    (IsForward /\ last.status = "ok" /\ ~hist[Ref(ens, last.name)].dirty)
        => /\ last.seen = hist[Ref(ens, last.name)].reset
           /\ last.seen = <<NetOf(last.name).fc1.weight, NetOf(last.name).fc2.weight,
                            NetOf(last.name).fc3.weight>>

C10_Witness ==
    /\ IsForward
    /\ last.status = "ok"
    /\ ~hist[Ref(ens, last.name)].dirty
    /\ hist[Ref(ens, last.name)].caller_resets > 0
    /\ last.seen = hist[Ref(ens, last.name)].reset
    /\ last.seen # hist[Ref(ens, last.name)].default

====
